---- MODULE Spec2Model ----
(***************************************************************************)
(* CalQ: a meal log kept in an SQLite store (DatabaseManager, src/ui.py),  *)
(* the Tkinter handlers that drive it (CalQApp, src/ui.py) and the pure    *)
(* calculation functions (src/calculator.py).                              *)
(*                                                                         *)
(* Text is modelled as a sequence of code points, so that strip(), the     *)
(* float() parser, strftime and SQLite's BINARY collation are computed as  *)
(* the code computes them.  A Python float is modelled as an exact         *)
(* rational [n, d] in lowest terms with d > 0; the additions of            *)
(* total_daily_calories round to MantissaBits significant bits.            *)
(***************************************************************************)
EXTENDS Integers, Sequences, FiniteSets, TLC

VARIABLES
    meals,          \* rows of table meals
    seq,            \* AUTOINCREMENT high-water mark of table meals (sqlite_sequence)
    created,        \* history: the ids INSERT has assigned so far
    users,          \* rows of table users
    connection,     \* DatabaseManager.connection: "open", "closed" or "none"
    clock,          \* wall clock, in ticks since the program started
    call,           \* the DatabaseManager call made last
    ret,            \* what that call returned
    pc,             \* "idle", or "weekly" while get_weekly_data is inside its loop
    loop_i,         \* loop variable i of get_weekly_data
    weekly_data,    \* the list get_weekly_data is building
    view,           \* the view CalQApp displays
    editing_meal_id, \* CalQApp.editing_meal_id, 0 for None
    selected_date,  \* CalQApp.selected_date
    dialog,         \* title of the message box the last call or handler showed, or "none"
    calc_args,      \* the three arguments of calculate_calories_for_serving
    calc_out,       \* outcome of the last call: pending, a return value or an exception
    logs,           \* the list of UserLog handed to the functions over logs
    meal_type_arg,  \* the meal_type handed to filter_logs_by_meal_type
    total_out,      \* outcome of total_daily_calories(logs)
    filter_out      \* outcome of filter_logs_by_meal_type(logs, meal_type_arg)

dbVars == <<meals, seq, created, users, connection>>

callVars == <<call, ret>>

loopVars == <<pc, loop_i, weekly_data>>

uiVars == <<view, editing_meal_id, selected_date>>

calcVars == <<calc_args, calc_out, logs, meal_type_arg, total_out, filter_out>>

vars == <<meals, seq, created, users, connection, clock, call, ret, pc, loop_i, weekly_data,
          view, editing_meal_id, selected_date, dialog, calc_args, calc_out,
          logs, meal_type_arg, total_out, filter_out>>

-----------------------------------------------------------------------------
(* Bounds of the model *)

MaxId == 2          \* rows ever inserted into meals

MaxClock == 1       \* ticks the wall clock advances

TicksPerDay == 1    \* clock readings that fall on one calendar day

FirstDay == 32      \* day of the year 2024 on which the program starts (1 February)

MaxLogs == 3        \* entries of a list handed to the functions over logs

MaxRows == 3        \* rows ever inserted where the two ways of totalling a day are compared

MantissaBits == 10  \* significant bits a float keeps in the additions of sum()

-----------------------------------------------------------------------------
(* Text *)

SP == 32
PLUS == 43
MINUS == 45
DOT == 46
ZERO == 48

IsSpace(ch) == ch \in {9, 10, 11, 12, 13, SP}

IsDigit(ch) == ch >= ZERO /\ ch <= ZERO + 9

RECURSIVE lstrip(_)
lstrip(s) == IF s # <<>> /\ IsSpace(Head(s)) THEN lstrip(Tail(s)) ELSE s

RECURSIVE rstrip(_)
rstrip(s) == IF s # <<>> /\ IsSpace(s[Len(s)]) THEN rstrip(SubSeq(s, 1, Len(s) - 1)) ELSE s

strip(s) == rstrip(lstrip(s))

(* str.lower() on ASCII text *)
lower(s) == [k \in 1..Len(s) |-> IF s[k] >= 65 /\ s[k] <= 90 THEN s[k] + 32 ELSE s[k]]

-----------------------------------------------------------------------------
(* Python floats as exact rationals *)

Abs(x) == IF x < 0 THEN 0 - x ELSE x

RECURSIVE Gcd(_, _)
Gcd(a, b) == IF b = 0 THEN a ELSE Gcd(b, a % b)

Rat(n, d) ==
    LET g == Gcd(Abs(n), Abs(d))
        sg == IF d < 0 THEN 0 - 1 ELSE 1
    IN  [n |-> (sg * n) \div g, d |-> (sg * d) \div g]

RInt(k) == [n |-> k, d |-> 1]

RAdd(a, b) == Rat(a.n * b.d + b.n * a.d, a.d * b.d)

RMul(a, b) == Rat(a.n * b.n, a.d * b.d)

RDiv(a, b) == Rat(a.n * b.d, a.d * b.n)

RLess(a, b) == a.n * b.d < b.n * a.d

(* float("nan"): not a number; every comparison with it is false *)
NaN == [n |-> 0, d |-> 0]

-----------------------------------------------------------------------------
(* Python values handed to the calculator: None, a number or a str *)

PyNone == [t |-> "none", n |-> 0, d |-> 1, s |-> <<>>]

PyNum(n, d) == [t |-> "num", n |-> Rat(n, d).n, d |-> Rat(n, d).d, s |-> <<>>]

PyStr(s) == [t |-> "str", n |-> 0, d |-> 1, s |-> s]

Raise(e) == [exc |-> e, n |-> 0, d |-> 1]

Return(r) == [exc |-> "", n |-> r.n, d |-> r.d]

Pow10(k) == IF k = 0 THEN 1 ELSE IF k = 1 THEN 10 ELSE IF k = 2 THEN 100 ELSE 1000

RECURSIVE DigitsValue(_)
DigitsValue(s) ==
    IF s = <<>> THEN 0 ELSE 10 * DigitsValue(SubSeq(s, 1, Len(s) - 1)) + (s[Len(s)] - ZERO)

AllDigits(s) == \A i \in 1..Len(s) : IsDigit(s[i])

DotAt(s) == IF \E i \in 1..Len(s) : s[i] = DOT
            THEN CHOOSE i \in 1..Len(s) : s[i] = DOT /\ \A j \in 1..(i - 1) : s[j] # DOT
            ELSE 0

(* float(str): surrounding whitespace is ignored, then an optional sign and *)
(* a decimal literal with at least one digit, or "nan" in any letter case;  *)
(* anything else is ValueError.  Exponents, underscores and "inf" are       *)
(* outside the sampled texts.                                               *)
float_str(s) ==
    LET t == strip(s)
        signed == t # <<>> /\ Head(t) \in {PLUS, MINUS}
        neg == t # <<>> /\ Head(t) = MINUS
        body == IF signed THEN Tail(t) ELSE t
        k == DotAt(body)
        ip == IF k = 0 THEN body ELSE SubSeq(body, 1, k - 1)
        fp == IF k = 0 THEN <<>> ELSE SubSeq(body, k + 1, Len(body))
        wellFormed == AllDigits(ip) /\ AllDigits(fp) /\ Len(ip) + Len(fp) >= 1 /\ Len(fp) <= 3
        mag == DigitsValue(ip) * Pow10(Len(fp)) + DigitsValue(fp)
    IN  IF lower(body) = <<110, 97, 110>>     \* "nan"
        THEN Return(NaN)
        ELSE IF wellFormed
        THEN Return(Rat(IF neg THEN 0 - mag ELSE mag, Pow10(Len(fp))))
        ELSE Raise("ValueError")

float(x) ==
    CASE x.t = "none" -> Raise("TypeError")
      [] x.t = "num" -> Return(x)
      [] x.t = "str" -> float_str(x.s)

(* the zero guard ahead of the conversion errors *)
calculate_zero_check_first(calories_per_serving, standard_serving_size, user_serving_size) ==
    LET cal == float(calories_per_serving)
        std_size == float(standard_serving_size)
        user_size == float(user_serving_size)
    IN  IF std_size.exc = "" /\ std_size.n = 0
        THEN Raise("ZeroDivisionError")
        ELSE IF cal.exc # "" \/ std_size.exc # "" \/ user_size.exc # ""
        THEN Raise("ValueError")
        ELSE Return(RMul(RDiv(cal, std_size), user_size))

(* the parenthesis slipped: cal / (std_size * user_size) *)
calculate_divides_by_both(calories_per_serving, standard_serving_size, user_serving_size) ==
    LET cal == float(calories_per_serving)
        std_size == float(standard_serving_size)
        user_size == float(user_serving_size)
    IN  IF cal.exc # "" \/ std_size.exc # "" \/ user_size.exc # ""
        THEN Raise("ValueError")
        ELSE IF std_size.n = 0 \/ user_size.n = 0
        THEN Raise("ZeroDivisionError")
        ELSE Return(RDiv(cal, RMul(std_size, user_size)))

(* except ValueError only: the TypeError of float(None) escapes *)
calculate_catches_value_error_only(calories_per_serving, standard_serving_size, user_serving_size) ==
    LET cal == float(calories_per_serving)
        std_size == float(standard_serving_size)
        user_size == float(user_serving_size)
    IN  IF cal.exc # "" THEN Raise(cal.exc)
        ELSE IF std_size.exc # "" THEN Raise(std_size.exc)
        ELSE IF user_size.exc # "" THEN Raise(user_size.exc)
        ELSE IF std_size.n = 0
        THEN Raise("ZeroDivisionError")
        ELSE Return(RMul(RDiv(cal, std_size), user_size))

calculate_calories_for_serving(calories_per_serving, standard_serving_size, user_serving_size) ==
    LET cal == float(calories_per_serving)
        std_size == float(standard_serving_size)
        user_size == float(user_serving_size)
    IN  IF cal.exc # "" \/ std_size.exc # "" \/ user_size.exc # ""
        THEN Raise("ValueError")
        ELSE IF std_size.n = 0
        THEN Raise("ZeroDivisionError")
        ELSE Return(RMul(RDiv(cal, std_size), user_size))

-----------------------------------------------------------------------------
(* The functions over lists of UserLog *)

UserLog(id, date, meal_type, food_name, calories, serving_size, notes, timestamp) ==
    [id |-> id, date |-> date, meal_type |-> meal_type, food_name |-> food_name,
     calories |-> calories, serving_size |-> serving_size, notes |-> notes,
     timestamp |-> timestamp]

RECURSIVE Pow2(_)
Pow2(k) == IF k = 0 THEN 1 ELSE 2 * Pow2(k - 1)

RECURSIVE BitLength(_)
BitLength(a) == IF a = 0 THEN 0 ELSE 1 + BitLength(a \div 2)

(* x / y rounded to the nearest integer, a tie to the even one *)
RoundHalfEven(x, y) ==
    LET q == x \div y
        r == x % y
    IN  IF 2 * r < y THEN q
        ELSE IF 2 * r > y THEN q + 1
        ELSE IF q % 2 = 0 THEN q ELSE q + 1

(* the float nearest to the dyadic rational r (round to nearest, ties to     *)
(* even), a float keeping MantissaBits significant bits                      *)
float_round(r) ==
    LET a == Abs(r.n)
        sh == BitLength(a) - MantissaBits
        sg == IF r.n < 0 THEN 0 - 1 ELSE 1
    IN  IF sh <= 0 THEN r
        ELSE Rat(sg * RoundHalfEven(a, Pow2(sh)) * Pow2(sh), r.d)

(* float.__add__ *)
float_add(a, b) == float_round(RAdd(a, b))

(* sum(iterable): start + x1 + x2 + ..., from the left, start being int 0 *)
RECURSIVE sum(_, _)
sum(values, start) ==
    IF values = <<>> THEN start
    ELSE sum(Tail(values), float_add(start, Head(values)))

(* the calories truncated before they are added: sum(int(log.calories) ...) *)
total_daily_calories_truncating(log_list) ==
    Return(sum([k \in 1..Len(log_list) |->
                  RInt(log_list[k].calories.n \div log_list[k].calories.d)], RInt(0)))

total_daily_calories(log_list) ==
    Return(sum([k \in 1..Len(log_list) |-> log_list[k].calories], RInt(0)))

(* the comparison made without lower() *)
filter_logs_by_meal_type_exact(log_list, meal_type) ==
    SelectSeq(log_list, LAMBDA log : log.meal_type = meal_type)

filter_logs_by_meal_type(log_list, meal_type) ==
    LET meal_type_lower == lower(meal_type)
    IN  SelectSeq(log_list, LAMBDA log : lower(log.meal_type) = meal_type_lower)

-----------------------------------------------------------------------------
(* Dates and the wall clock *)

YEAR == <<50, 48, 50, 52>>      \* "2024"; every clock reading of the model falls in 2024

IsLeap(y) == y % 4 = 0 /\ (y % 100 # 0 \/ y % 400 = 0)

DaysInMonth(y, m) ==
    IF m = 2 THEN (IF IsLeap(y) THEN 29 ELSE 28)
    ELSE <<31, 0, 31, 30, 31, 30, 31, 31, 30, 31, 30, 31>>[m]

RECURSIVE MonthDay(_, _)
MonthDay(n, m) ==
    IF n <= DaysInMonth(2024, m) THEN <<m, n>> ELSE MonthDay(n - DaysInMonth(2024, m), m + 1)

TwoDigits(k) == <<ZERO + (k \div 10), ZERO + (k % 10)>>

(* date.strftime("%Y-%m-%d") of the calendar day with ordinal day (1 = 1 January) *)
strftime(day) ==
    LET md == MonthDay(day, 1)
    IN  YEAR \o <<MINUS>> \o TwoDigits(md[1]) \o <<MINUS>> \o TwoDigits(md[2])

(* the texts between the separators sep of s *)
RECURSIVE Split(_, _)
Split(s, sep) ==
    IF \E k \in 1..Len(s) : s[k] = sep
    THEN LET k == CHOOSE x \in 1..Len(s) : s[x] = sep /\ \A y \in 1..(x - 1) : s[y] # sep
         IN  <<SubSeq(s, 1, k - 1)>> \o Split(SubSeq(s, k + 1, Len(s)), sep)
    ELSE <<s>>

(* datetime.strptime(text, "%Y-%m-%d") succeeds: four digits of year, one   *)
(* or two digits of month and of day, naming a day of the calendar; no      *)
(* surrounding text is tolerated (a day written as a blank and one digit,   *)
(* which strptime also takes, is outside the sampled texts)                 *)
strptime(text) ==
    LET parts == Split(text, MINUS)
        wellFormed ==
            /\ Len(parts) = 3
            /\ Len(parts[1]) = 4 /\ AllDigits(parts[1])
            /\ Len(parts[2]) \in {1, 2} /\ AllDigits(parts[2])
            /\ Len(parts[3]) \in {1, 2} /\ AllDigits(parts[3])
        y == DigitsValue(parts[1])
        m == DigitsValue(parts[2])
        d == DigitsValue(parts[3])
    IN  wellFormed /\ y >= 1 /\ m \in 1..12 /\ d >= 1 /\ d <= DaysInMonth(y, m)

(* datetime.now(): the calendar day and the instant read from the wall clock *)
now == [day |-> FirstDay + (clock \div TicksPerDay), instant |-> clock]

(* datetime.isoformat() is order-preserving and injective on instants, so   *)
(* the instant itself stands for the timestamp text.                        *)
isoformat(t) == t.instant

-----------------------------------------------------------------------------
(* The store: SQLite tables meals and users *)

None == <<0 - 1>>       \* Python None / SQL NULL in a text position

Row(id, date, meal_type, food_name, calories, serving_size, notes, timestamp) ==
    [id |-> id, date |-> date, meal_type |-> meal_type, food_name |-> food_name,
     calories |-> calories, serving_size |-> serving_size, notes |-> notes,
     timestamp |-> timestamp]

(* BINARY collation: memcmp of the common prefix, then the shorter text first *)
RECURSIVE TextLess(_, _)
TextLess(a, b) ==
    IF b = <<>> THEN FALSE
    ELSE IF a = <<>> THEN TRUE
    ELSE IF Head(a) # Head(b) THEN Head(a) < Head(b)
    ELSE TextLess(Tail(a), Tail(b))

Orderings(S) ==
    {f \in [1..Cardinality(S) -> S] : \A a, b \in 1..Cardinality(S) : a # b => f[a] # f[b]}

(* sqlite3.Error and the subclasses of it that the statements raise; the    *)
(* except clauses of DatabaseManager catch these and nothing else           *)
SqliteErrors == {"OperationalError", "IntegrityError", "ProgrammingError"}

(* self.connection.cursor(): AttributeError when connection is None,        *)
(* sqlite3.ProgrammingError when the connection has been closed             *)
cursor ==
    IF connection = "none" THEN "AttributeError"
    ELSE IF connection = "closed" THEN "ProgrammingError"
    ELSE ""

(* an exception e raised inside a try block of DatabaseManager: the clause   *)
(* except sqlite3.Error turns it into the failure result, anything else      *)
(* reaches the caller; the statement has changed nothing                     *)
Caught(e) == [exc |-> "", caught |-> e, ok |-> FALSE, meals |-> meals, seq |-> seq]

Uncaught(e) == [exc |-> e, caught |-> "", ok |-> FALSE, meals |-> meals, seq |-> seq]

Except(e) == IF e \in SqliteErrors THEN Caught(e) ELSE Uncaught(e)

Done(table, counter) == [exc |-> "", caught |-> "", ok |-> TRUE, meals |-> table, seq |-> counter]

(* the date parameter ignored in favour of today's date *)
create_meal_dated_today(date, meal_type, food_name, calories, serving_size, notes) ==
    LET timestamp == isoformat(now)
    IN  IF cursor # "" THEN Except(cursor)
        ELSE IF None \in {date, meal_type, food_name} \/ calories = NaN
        THEN Except("IntegrityError")
        ELSE Done(meals \cup {Row(seq + 1, strftime(now.day), meal_type, food_name,
                                  calories, serving_size, notes, timestamp)},
                  seq + 1)

(* except sqlite3.IntegrityError instead of sqlite3.Error *)
create_meal_catches_integrity_only(date, meal_type, food_name, calories, serving_size, notes) ==
    LET timestamp == isoformat(now)
    IN  IF cursor # "" THEN Uncaught(cursor)
        ELSE IF None \in {date, meal_type, food_name} \/ calories = NaN
        THEN Caught("IntegrityError")
        ELSE Done(meals \cup {Row(seq + 1, date, meal_type, food_name, calories,
                                  serving_size, notes, timestamp)},
                  seq + 1)

(* id INTEGER PRIMARY KEY without AUTOINCREMENT: one more than the largest   *)
(* id in the table                                                           *)
create_meal_rowid(date, meal_type, food_name, calories, serving_size, notes) ==
    LET timestamp == isoformat(now)
        largest == IF meals = {} THEN 0
                   ELSE CHOOSE k \in {m.id : m \in meals} : \A m \in meals : m.id <= k
    IN  IF cursor # "" THEN Except(cursor)
        ELSE IF None \in {date, meal_type, food_name} \/ calories = NaN
        THEN Except("IntegrityError")
        ELSE Done(meals \cup {Row(largest + 1, date, meal_type, food_name, calories,
                                  serving_size, notes, timestamp)},
                  seq + 1)

(* INSERT INTO meals: NOT NULL on date, meal_type, food_name, calories and   *)
(* timestamp (SQLite binds a NaN as NULL); id is AUTOINCREMENT, one more     *)
(* than the largest id ever used.  The cursor is taken first.                *)
create_meal(date, meal_type, food_name, calories, serving_size, notes) ==
    LET timestamp == isoformat(now)
    IN  IF cursor # "" THEN Except(cursor)
        ELSE IF None \in {date, meal_type, food_name} \/ calories = NaN
        THEN Except("IntegrityError")
        ELSE Done(meals \cup {Row(seq + 1, date, meal_type, food_name, calories,
                                  serving_size, notes, timestamp)},
                  seq + 1)

ByDateColumns(m) ==
    [id |-> m.id, meal_type |-> m.meal_type, food_name |-> m.food_name,
     calories |-> m.calories, serving_size |-> m.serving_size, notes |-> m.notes,
     timestamp |-> m.timestamp]

(* SELECT ... WHERE date = ? ORDER BY timestamp ASC: every order of the      *)
(* matching rows that is ascending in timestamp; SQLite leaves the order of  *)
(* rows with equal timestamp unspecified.                                    *)
SelectByDate(table, date) ==
    LET rows == {m \in table : m.date = date}
    IN  { [k \in 1..Cardinality(rows) |-> ByDateColumns(f[k])] :
            f \in {g \in Orderings(rows) :
                     \A a, b \in 1..Cardinality(rows) :
                        a < b => g[a].timestamp <= g[b].timestamp} }

(* the statement ending in LIMIT 1 *)
read_meals_by_date_limit_1(date) ==
    IF cursor \in SqliteErrors THEN {<<>>}
    ELSE {IF rows = <<>> THEN rows ELSE <<rows[1]>> : rows \in SelectByDate(meals, date)}

(* the values read_meals_by_date can return: [] after a sqlite3.Error *)
read_meals_by_date(date) ==
    IF cursor \in SqliteErrors THEN {<<>>} ELSE SelectByDate(meals, date)

(* ORDER BY date ASC, timestamp DESC *)
SelectAll_date_ascending(table) ==
    {f \in Orderings(table) :
        \A a, b \in 1..Cardinality(table) :
            a < b => \/ TextLess(f[a].date, f[b].date)
                     \/ f[a].date = f[b].date /\ f[a].timestamp >= f[b].timestamp}

(* SELECT ... ORDER BY date DESC, timestamp DESC *)
SelectAll(table) ==
    {f \in Orderings(table) :
        \A a, b \in 1..Cardinality(table) :
            a < b => \/ TextLess(f[b].date, f[a].date)
                     \/ f[a].date = f[b].date /\ f[a].timestamp >= f[b].timestamp}

(* the values read_all_meals can return: [] after a sqlite3.Error *)
read_all_meals ==
    IF cursor \in SqliteErrors THEN {<<>>} ELSE SelectAll(meals)

(* INSERT OR REPLACE: a row is made when none has the id *)
update_meal_upserts(meal_id, meal_type, food_name, calories, serving_size, notes) ==
    IF cursor # "" THEN Except(cursor)
    ELSE IF None \in {meal_type, food_name} \/ calories = NaN
    THEN Except("IntegrityError")
    ELSE IF \E m \in meals : m.id = meal_id
    THEN Done({ IF m.id = meal_id
                THEN [m EXCEPT !.meal_type = meal_type, !.food_name = food_name,
                               !.calories = calories, !.serving_size = serving_size,
                               !.notes = notes]
                ELSE m : m \in meals }, seq)
    ELSE Done(meals \cup {Row(meal_id, strftime(now.day), meal_type, food_name, calories,
                              serving_size, notes, isoformat(now))}, seq)

(* the statement also stamps the row: SET ..., timestamp = now *)
update_meal_restamps(meal_id, meal_type, food_name, calories, serving_size, notes) ==
    IF cursor # "" THEN Except(cursor)
    ELSE IF (None \in {meal_type, food_name} \/ calories = NaN) /\ \E m \in meals : m.id = meal_id
    THEN Except("IntegrityError")
    ELSE Done({ IF m.id = meal_id
                      THEN [m EXCEPT !.meal_type = meal_type, !.food_name = food_name,
                                     !.calories = calories, !.serving_size = serving_size,
                                     !.notes = notes, !.timestamp = isoformat(now)]
                      ELSE m : m \in meals }, seq)

(* UPDATE meals SET meal_type, food_name, calories, serving_size, notes      *)
(* WHERE id = ?; NOT NULL on meal_type, food_name and calories fails the     *)
(* statement only when a row matches.                                        *)
update_meal(meal_id, meal_type, food_name, calories, serving_size, notes) ==
    IF cursor # "" THEN Except(cursor)
    ELSE IF (None \in {meal_type, food_name} \/ calories = NaN) /\ \E m \in meals : m.id = meal_id
    THEN Except("IntegrityError")
    ELSE Done({ IF m.id = meal_id
                      THEN [m EXCEPT !.meal_type = meal_type, !.food_name = food_name,
                                     !.calories = calories, !.serving_size = serving_size,
                                     !.notes = notes]
                      ELSE m : m \in meals }, seq)

(* success reported only when a row was deleted (rowcount > 0) *)
delete_meal_checks_rowcount(meal_id) ==
    IF cursor # "" THEN Except(cursor)
    ELSE [Done({m \in meals : m.id # meal_id}, seq) EXCEPT !.ok = \E m \in meals : m.id = meal_id]

(* DELETE FROM meals WHERE id = ? *)
delete_meal(meal_id) ==
    IF cursor # "" THEN Except(cursor)
    ELSE Done({m \in meals : m.id # meal_id}, seq)

(* SUM(calories): NULL over no rows, else the float additions 0.0 + x1 +    *)
(* x2 + ... made as the table is scanned, in the order of the ids           *)
SqlNull == [n |-> 0, d |-> 0]

RECURSIVE SqlSumFrom(_, _)
SqlSumFrom(rows, acc) ==
    IF rows = {} THEN acc
    ELSE LET m == CHOOSE x \in rows : \A y \in rows : x.id <= y.id
         IN  SqlSumFrom(rows \ {m}, float_add(acc, m.calories))

SqlSum(rows) == IF rows = {} THEN SqlNull ELSE SqlSumFrom(rows, RInt(0))

(* WHERE date <= ? instead of WHERE date = ? *)
get_daily_calories_through_date(date) ==
    LET result == SqlSum({m \in meals : m.date = date \/ TextLess(m.date, date)})
    IN  IF cursor \in SqliteErrors THEN RInt(0)
        ELSE IF result # SqlNull /\ result.n # 0 THEN result ELSE RInt(0)

(* the WHERE clause left out *)
get_daily_calories_of_all_dates(date) ==
    LET result == SqlSum(meals)
    IN  IF cursor \in SqliteErrors THEN RInt(0)
        ELSE IF result # SqlNull /\ result.n # 0 THEN result ELSE RInt(0)

(* float(result) if result else 0.0: None and 0.0 are both falsy; 0.0 after  *)
(* a sqlite3.Error                                                           *)
get_daily_calories(date) ==
    LET result == SqlSum({m \in meals : m.date = date})
    IN  IF cursor \in SqliteErrors THEN RInt(0)
        ELSE IF result # SqlNull /\ result.n # 0 THEN result ELSE RInt(0)

(* the row initialize_database inserts into users *)
DefaultUser == [id |-> 1, name |-> "User", target_calories |-> 2000]

(* the target kept per meal: 2000 for each stored meal *)
get_target_calories_per_meal ==
    IF cursor \in SqliteErrors THEN 2000
    ELSE IF \E u \in users : u.id = 1
    THEN (CHOOSE u \in users : u.id = 1).target_calories * Cardinality(meals)
    ELSE 2000

(* the fallback left out: result[0] of a missing row *)
get_target_calories_no_fallback ==
    IF cursor \in SqliteErrors THEN 2000
    ELSE IF \E u \in users : u.id = 1
    THEN (CHOOSE u \in users : u.id = 1).target_calories
    ELSE 0

(* SELECT target_calories FROM users WHERE id = 1; int(result[0]) if result  *)
(* else 2000; 2000 after a sqlite3.Error                                     *)
get_target_calories ==
    IF cursor \in SqliteErrors THEN 2000
    ELSE IF \E u \in users : u.id = 1
    THEN (CHOOSE u \in users : u.id = 1).target_calories
    ELSE 2000

-----------------------------------------------------------------------------
(* Inputs *)

T_Lunch == <<76, 117, 110, 99, 104>>                        \* "Lunch"
T_Breakfast == <<66, 114, 101, 97, 107, 102, 97, 115, 116>> \* "Breakfast"
T_Rice == <<82, 105, 99, 101>>                              \* "Rice"
T_Egg == <<69, 103, 103>>                                   \* "Egg"
T_Cup == <<49, 32, 99, 117, 112>>                           \* "1 cup"
T_Fried == <<102, 114, 105, 101, 100>>                      \* "fried"
T_Dinner == <<68, 105, 110, 110, 101, 114>>                 \* "Dinner"
T_Snacks == <<83, 110, 97, 99, 107, 115>>                   \* "Snacks"
T_Unpadded == <<50, 48, 50, 52, 45, 50, 45, 49>>            \* "2024-2-1"
T_NoSuchDay == <<50, 48, 50, 52, 45, 48, 50, 45, 51, 48>>   \* "2024-02-30"
T_RicePadded == <<32, 82, 105, 99, 101, 32>>                \* " Rice "
T_Blank == <<32>>                                           \* " "
T_200 == <<50, 48, 48>>                                     \* "200"
T_100 == <<49, 48, 48>>                                     \* "100"
T_Minus5 == <<45, 53>>                                      \* "-5"
T_Abc == <<97, 98, 99>>                                     \* "abc"
T_Nan == <<110, 97, 110>>                                   \* "nan"

MealTypes == {T_Breakfast, T_Lunch, T_Dinner, T_Snacks}

Payload(meal_type, food_name, calories, serving_size, notes) ==
    [meal_type |-> meal_type, food_name |-> food_name, calories |-> calories,
     serving_size |-> serving_size, notes |-> notes]

NoPayload == Payload(<<>>, <<>>, RInt(0), <<>>, <<>>)

(* field values a direct caller passes to create_meal and update_meal *)
Payloads ==
    { Payload(T_Lunch, T_Rice, RInt(200), <<>>, <<>>),
      Payload(T_Breakfast, T_Egg, RInt(100), T_Cup, T_Fried),
      Payload(T_Lunch, None, RInt(200), <<>>, <<>>) }

(* dates a direct caller passes: the day the program starts, the day before *)
(* and a text that is not zero-padded                                       *)
DateInputs == {strftime(FirstDay), strftime(FirstDay - 1), T_Unpadded}

Ids == 1..MaxId

(* what the user leaves in the fields Meal Type, Food Name, Calories,       *)
(* Serving Size and Notes of the add/edit form before pressing its button   *)
FormFills ==
    { Payload(T_Lunch, T_RicePadded, T_200, <<>>, <<>>),
      Payload(T_Breakfast, T_Egg, T_100, T_Cup, T_Fried),
      Payload(T_Lunch, T_Blank, T_200, <<>>, <<>>),
      Payload(T_Lunch, T_Rice, <<>>, <<>>, <<>>),
      Payload(T_Lunch, T_Rice, T_Abc, <<>>, <<>>),
      Payload(T_Lunch, T_Rice, T_Minus5, <<>>, <<>>),
      Payload(T_Lunch, T_Rice, T_Nan, <<>>, <<>>) }

(* what the user leaves in the Date field of the form: the text it was     *)
(* filled with (selected_date, line 1079) or a text typed over it           *)
FormDates == {selected_date, T_NoSuchDay}

(* what the user types into the date selector of the dashboard *)
TypedDates == {T_Unpadded, T_NoSuchDay}

(* a call of DatabaseManager: conn is the connection it was made on, exc    *)
(* the exception that reached the caller and caught the sqlite3.Error       *)
(* turned into a failure result ("" for none)                               *)
Call(op, via, id, date, p, entry_date) ==
    [op |-> op, via |-> via, id |-> id, date |-> date, p |-> p, entry_date |-> entry_date,
     day |-> 0, day_ret |-> 0, conn |-> connection, exc |-> "", caught |-> ""]

Outcome(c, r) == [c EXCEPT !.exc = r.exc, !.caught = r.caught]

CalcValues ==
    { PyNone,
      PyNum(0, 1), PyNum(50, 1), PyNum(75, 1), PyNum(100, 1), PyNum(0 - 3, 2),
      PyStr(<<97, 98, 99>>),            \* "abc"
      PyStr(<<>>),                      \* ""
      PyStr(<<32, 48, 46, 48, 32>>),    \* " 0.0 "
      PyStr(<<45, 48>>),                \* "-0"
      PyStr(<<50, 46, 53>>),            \* "2.5"
      PyStr(<<53, 48>>) }               \* "50"

Pending == [exc |-> "pending", n |-> 0, d |-> 1]

T_breakfast == <<98, 114, 101, 97, 107, 102, 97, 115, 116>> \* "breakfast"
T_BREAKFAST == <<66, 82, 69, 65, 75, 70, 65, 83, 84>>       \* "BREAKFAST"
T_lunch == <<108, 117, 110, 99, 104>>                       \* "lunch"

(* a UserLog as the functions over logs see it: id, meal_type and calories   *)
(* vary, the other fields are those of one meal                              *)
Log(id, meal_type, calories) ==
    UserLog(id, strftime(FirstDay), meal_type, T_Rice, calories, <<>>, <<>>, 0)

(* the entries a caller puts into the list: calories 100, 250.5, 0, a float  *)
(* as large as the mantissa holds exactly up to odd numbers, and 1           *)
LogEntries ==
    { Log(1, T_Breakfast, RInt(100)),
      Log(2, T_breakfast, Rat(501, 2)),
      Log(3, T_BREAKFAST, RInt(0)),
      Log(4, T_Lunch, RInt(Pow2(MantissaBits))),
      Log(5, T_Snacks, RInt(1)) }

RECURSIVE ListsUpTo(_)
ListsUpTo(k) ==
    IF k = 0 THEN {<<>>}
    ELSE ListsUpTo(k - 1) \cup
         {Append(l, e) : l \in {x \in ListsUpTo(k - 1) : Len(x) = k - 1}, e \in LogEntries}

LogLists == ListsUpTo(MaxLogs)

MealTypeArgs == {T_breakfast, T_Breakfast, T_BREAKFAST, T_lunch, T_Dinner}

-----------------------------------------------------------------------------
(* The state after DatabaseManager() and CalQApp() are constructed *)

(* the ways initialize_database can go: every statement succeeds, connect    *)
(* raises, or a statement after connect raises                               *)
InitOutcomes == {"ok", "connect fails", "statement fails"}

(* the default user inserted on every call *)
initialize_database_always_inserts(outcome) ==
    CASE outcome = "connect fails" ->
           [connection |-> connection, users |-> users, caught |-> "OperationalError"]
      [] outcome = "statement fails" ->
           [connection |-> "open", users |-> users, caught |-> "OperationalError"]
      [] outcome = "ok" ->
           [connection |-> "open",
            users |-> users \cup {[DefaultUser EXCEPT !.id = Cardinality(users) + 1]},
            caught |-> ""]

(* initialize_database: when connect fails connection keeps its value, when  *)
(* a later statement fails the new connection stays; the default user is     *)
(* inserted when table users has no row                                   *)
initialize_database(outcome) ==
    CASE outcome = "connect fails" ->
           [connection |-> connection, users |-> users, caught |-> "OperationalError"]
      [] outcome = "statement fails" ->
           [connection |-> "open", users |-> users, caught |-> "OperationalError"]
      [] outcome = "ok" ->
           [connection |-> "open",
            users |-> IF users = {} THEN {DefaultUser} ELSE users,
            caught |-> ""]

(* the test of self.connection left out *)
close_unguarded ==
    IF connection = "none" THEN [connection |-> "none", exc |-> "AttributeError"]
    ELSE [connection |-> "closed", exc |-> ""]

(* close: nothing when connection is None; sqlite3's Connection.close() on  *)
(* a closed connection does nothing and raises nothing                      *)
close ==
    IF connection = "none" THEN [connection |-> "none", exc |-> ""]
    ELSE [connection |-> "closed", exc |-> ""]

InitIdle ==
    /\ meals = {}
    /\ seq = 0
    /\ created = {}
    /\ clock = 0
    /\ call = Call("none", "none", 0, <<>>, NoPayload, <<>>)
    /\ ret = FALSE
    /\ pc = "idle"
    /\ loop_i = 0
    /\ weekly_data = <<>>
    /\ view = "dashboard"
    /\ editing_meal_id = 0
    /\ selected_date = strftime(FirstDay)
    /\ dialog = "none"

(* DatabaseManager() on a new file, initialize_database having succeeded *)
InitStore ==
    /\ users = {DefaultUser}
    /\ connection = "open"
    /\ InitIdle

InitCalcIdle ==
    /\ calc_args = <<PyNone, PyNone, PyNone>>
    /\ calc_out = Pending

FilterPending == [exc |-> "pending", value |-> <<>>]

InitLogsIdle ==
    /\ logs = <<>>
    /\ meal_type_arg = <<>>
    /\ total_out = Pending
    /\ filter_out = FilterPending

Init ==
    /\ InitStore
    /\ InitCalcIdle
    /\ InitLogsIdle

-----------------------------------------------------------------------------
(* The wall clock *)

Tick ==
    /\ clock < MaxClock
    /\ clock' = clock + 1
    /\ UNCHANGED <<dbVars, callVars, loopVars, uiVars, dialog, calcVars>>

-----------------------------------------------------------------------------
(* DatabaseManager called directly *)

Ready == pc = "idle"

(* create_meal called with a date of dates and the fields of a payload of   *)
(* payloads, while fewer than most rows have been inserted                  *)
CreateMealOf(dates, payloads, most) ==
    /\ Ready
    /\ seq < most
    /\ \E date \in dates, p \in payloads :
         LET r == create_meal(date, p.meal_type, p.food_name, p.calories, p.serving_size, p.notes)
         IN  /\ meals' = r.meals
             /\ seq' = r.seq
             /\ created' = created \cup {m.id : m \in r.meals \ meals}
             /\ ret' = r.ok
             /\ call' = Outcome(Call("create_meal", "direct", 0, date, p, <<>>), r)
             /\ dialog' = IF r.caught # "" THEN "Error" ELSE "none"
    /\ UNCHANGED <<users, connection, clock, loopVars, uiVars, calcVars>>

CreateMeal == CreateMealOf(DateInputs, Payloads, MaxId)

ReadMealsByDate ==
    /\ Ready
    /\ \E date \in DateInputs :
         /\ call' = Outcome(Call("read_meals_by_date", "direct", 0, date, NoPayload, <<>>),
                            Except(cursor))
         /\ IF Except(cursor).exc # ""
            THEN ret' = FALSE
            ELSE ret' \in read_meals_by_date(date)
    /\ dialog' = "none"
    /\ UNCHANGED <<dbVars, clock, loopVars, uiVars, calcVars>>

ReadAllMeals ==
    /\ Ready
    /\ call' = Outcome(Call("read_all_meals", "direct", 0, <<>>, NoPayload, <<>>), Except(cursor))
    /\ IF Except(cursor).exc # ""
       THEN ret' = FALSE
       ELSE ret' \in read_all_meals
    /\ dialog' = "none"
    /\ UNCHANGED <<dbVars, clock, loopVars, uiVars, calcVars>>

UpdateMeal ==
    /\ Ready
    /\ \E meal_id \in Ids, p \in Payloads :
         LET r == update_meal(meal_id, p.meal_type, p.food_name, p.calories, p.serving_size, p.notes)
         IN  /\ meals' = r.meals
             /\ ret' = r.ok
             /\ call' = Outcome(Call("update_meal", "direct", meal_id, <<>>, p, <<>>), r)
             /\ dialog' = IF r.caught # "" THEN "Error" ELSE "none"
    /\ UNCHANGED <<seq, created, users, connection, clock, loopVars, uiVars, calcVars>>

DeleteMeal ==
    /\ Ready
    /\ \E meal_id \in Ids :
         LET r == delete_meal(meal_id)
         IN  /\ meals' = r.meals
             /\ ret' = r.ok
             /\ call' = Outcome(Call("delete_meal", "direct", meal_id, <<>>, NoPayload, <<>>), r)
             /\ dialog' = IF r.caught # "" THEN "Error" ELSE "none"
    /\ UNCHANGED <<seq, created, users, connection, clock, loopVars, uiVars, calcVars>>

GetDailyCalories ==
    /\ Ready
    /\ \E date \in DateInputs :
         /\ call' = Outcome(Call("get_daily_calories", "direct", 0, date, NoPayload, <<>>),
                            Except(cursor))
         /\ IF Except(cursor).exc # ""
            THEN ret' = FALSE
            ELSE ret' = get_daily_calories(date)
    /\ dialog' = "none"
    /\ UNCHANGED <<dbVars, clock, loopVars, uiVars, calcVars>>

(* get_weekly_data: the loop reads the wall clock anew in every iteration *)
GetWeeklyDataCall ==
    /\ Ready
    /\ pc' = "weekly"
    /\ loop_i' = 6
    /\ weekly_data' = <<>>
    /\ call' = [Call("get_weekly_data", "direct", 0, <<>>, NoPayload, <<>>)
                  EXCEPT !.day = now.day, !.day_ret = now.day]
    /\ ret' = FALSE
    /\ dialog' = "none"
    /\ UNCHANGED <<dbVars, clock, uiVars, calcVars>>

(* one iteration; an exception get_daily_calories lets through ends the call *)
GetWeeklyDataIteration ==
    /\ pc = "weekly"
    /\ LET date == strftime(now.day - loop_i)
           calories == get_daily_calories(date)
           appended == Append(weekly_data, <<date, calories>>)
       IN  IF Except(cursor).exc # ""
           THEN /\ pc' = "idle"
                /\ ret' = FALSE
                /\ call' = [call EXCEPT !.exc = Except(cursor).exc, !.day_ret = now.day]
                /\ weekly_data' = <<>>
                /\ loop_i' = loop_i
           ELSE IF loop_i = 0
           THEN /\ pc' = "idle"
                /\ ret' = appended
                /\ call' = [call EXCEPT !.day_ret = now.day]
                /\ weekly_data' = <<>>
                /\ loop_i' = loop_i
           ELSE /\ weekly_data' = appended
                /\ loop_i' = loop_i - 1
                /\ UNCHANGED <<pc, ret, call>>
    /\ UNCHANGED <<dbVars, clock, uiVars, dialog, calcVars>>

GetTargetCalories ==
    /\ Ready
    /\ call' = Outcome(Call("get_target_calories", "direct", 0, <<>>, NoPayload, <<>>),
                       Except(cursor))
    /\ IF Except(cursor).exc # ""
       THEN ret' = FALSE
       ELSE ret' = get_target_calories
    /\ dialog' = "none"
    /\ UNCHANGED <<dbVars, clock, loopVars, uiVars, calcVars>>

(* initialize_database called again on the same DatabaseManager *)
InitializeDatabase ==
    /\ Ready
    /\ \E outcome \in InitOutcomes :
         LET r == initialize_database(outcome)
         IN  /\ connection' = r.connection
             /\ users' = r.users
             /\ call' = [Call("initialize_database", "direct", 0, <<>>, NoPayload, <<>>)
                           EXCEPT !.caught = r.caught]
             /\ ret' = FALSE
             /\ dialog' = IF r.caught # "" THEN "Database Error" ELSE "none"
    /\ UNCHANGED <<meals, seq, created, clock, loopVars, uiVars, calcVars>>

Close ==
    /\ Ready
    /\ connection' = close.connection
    /\ call' = [Call("close", "direct", 0, <<>>, NoPayload, <<>>) EXCEPT !.exc = close.exc]
    /\ ret' = FALSE
    /\ dialog' = "none"
    /\ UNCHANGED <<meals, seq, created, users, clock, loopVars, uiVars, calcVars>>

NextDb ==
    \/ CreateMeal
    \/ ReadMealsByDate
    \/ ReadAllMeals
    \/ UpdateMeal
    \/ DeleteMeal
    \/ GetDailyCalories
    \/ GetWeeklyDataCall
    \/ GetWeeklyDataIteration

Next == Tick \/ NextDb

Spec == Init /\ [][Next]_vars

-----------------------------------------------------------------------------
(* DatabaseManager over the life of its connection: constructed on a new    *)
(* file with any outcome of initialize_database, then called directly,      *)
(* re-initialized and closed                                                *)

InitAnyStore ==
    /\ \E outcome \in InitOutcomes :
         /\ connection = IF outcome = "connect fails" THEN "none" ELSE "open"
         /\ users = IF outcome = "ok" THEN {DefaultUser} ELSE {}
    /\ InitIdle
    /\ InitCalcIdle
    /\ InitLogsIdle

NextStore ==
    \/ CreateMeal
    \/ ReadMealsByDate
    \/ ReadAllMeals
    \/ UpdateMeal
    \/ DeleteMeal
    \/ GetDailyCalories
    \/ GetTargetCalories
    \/ InitializeDatabase
    \/ Close

SpecStore == InitAnyStore /\ [][NextStore]_vars

-----------------------------------------------------------------------------
(* DatabaseManager totalling one day: meals of one date whose calories make *)
(* a float addition round, created at one reading of the wall clock,        *)
(* updated, deleted, read and summed                                        *)

(* calories as large as the mantissa holds exactly up to odd numbers, and 1 *)
DayPayloads ==
    { Payload(T_Lunch, T_Rice, RInt(Pow2(MantissaBits)), <<>>, <<>>),
      Payload(T_Snacks, T_Egg, RInt(1), <<>>, <<>>) }

CreateMealOfDay == CreateMealOf({strftime(FirstDay)}, DayPayloads, MaxRows)

NextDay ==
    \/ CreateMealOfDay
    \/ UpdateMeal
    \/ DeleteMeal
    \/ ReadMealsByDate
    \/ ReadAllMeals
    \/ GetDailyCalories

SpecDay == Init /\ [][NextDay]_vars

-----------------------------------------------------------------------------
(* CalQApp: the handlers of the Tkinter widgets *)

Alive == pc = "idle" /\ view # "destroyed"

(* call and ret record the create, update or delete the handler made; a     *)
(* handler that made none leaves the record of no call                       *)
NoCall == Call("none", "none", 0, <<>>, NoPayload, <<>>)

NoWrite == call' = NoCall /\ ret' = FALSE

(* the meals whose Edit and Delete buttons the dashboard shows: those of    *)
(* selected_date whose meal type is one of the four sections                *)
DashboardItems ==
    {m.id : m \in {x \in meals : x.date = selected_date /\ x.meal_type \in MealTypes}}

(* the meals whose buttons the full log shows: the sections are built      *)
(* inside a canvas that is packed only after the last section; strptime on  *)
(* a section's date raises out of show_all_logs before that, and the        *)
(* canvas with the sections already built is never shown                    *)
AllLogsItems ==
    IF \A y \in meals : strptime(y.date) THEN {m.id : m \in meals} ELSE {}

Displayed ==
    IF view = "dashboard" THEN DashboardItems
    ELSE IF view = "all_logs" THEN AllLogsItems
    ELSE {}

(* show_dashboard *)
ShowDashboard ==
    /\ Alive
    /\ view' = "dashboard"
    /\ editing_meal_id' = 0
    /\ dialog' = "none"
    /\ NoWrite
    /\ UNCHANGED <<dbVars, clock, loopVars, selected_date, calcVars>>

(* show_add_meal: the form is built for editing when editing_meal_id is set *)
ShowAddMeal ==
    /\ Alive
    /\ view' = "add_meal"
    /\ dialog' = "none"
    /\ NoWrite
    /\ UNCHANGED <<dbVars, clock, loopVars, editing_meal_id, selected_date, calcVars>>

(* show_all_logs *)
ShowAllLogs ==
    /\ Alive
    /\ view' = "all_logs"
    /\ dialog' = "none"
    /\ NoWrite
    /\ UNCHANGED <<dbVars, clock, loopVars, editing_meal_id, selected_date, calcVars>>

(* update_selected_date *)
UpdateSelectedDate ==
    /\ Alive
    /\ view = "dashboard"
    /\ \E date_str \in TypedDates :
         IF strptime(date_str)
         THEN /\ selected_date' = date_str
              /\ editing_meal_id' = 0
              /\ dialog' = "none"
              /\ UNCHANGED view
         ELSE /\ dialog' = "Invalid Date"
              /\ UNCHANGED <<view, editing_meal_id, selected_date>>
    /\ NoWrite
    /\ UNCHANGED <<dbVars, clock, loopVars, calcVars>>

(* the check calories < 0 left out *)
Rejected_accepts_negative(food_name, calories_str) ==
    \/ food_name = <<>>
    \/ calories_str = <<>>
    \/ float(PyStr(calories_str)).exc # ""

(* the checks create_meal_submit and update_meal_submit make on the fields *)
Rejected(food_name, calories_str) ==
    \/ food_name = <<>>
    \/ calories_str = <<>>
    \/ float(PyStr(calories_str)).exc # ""
    \/ float(PyStr(calories_str)).n < 0

FloatOf(calories_str) ==
    [n |-> float(PyStr(calories_str)).n, d |-> float(PyStr(calories_str)).d]

(* create_meal_submit: the Log Meal button of the form built for adding *)
CreateMealSubmit ==
    /\ Alive
    /\ view = "add_meal"
    /\ editing_meal_id = 0
    /\ seq < MaxId
    /\ \E entry_date \in FormDates, f \in FormFills :
         LET date == strip(entry_date)
             food_name == strip(f.food_name)
             calories_str == strip(f.calories)
             serving_size == strip(f.serving_size)
             notes == strip(f.notes)
         IN  IF Rejected(food_name, calories_str)
             THEN /\ dialog' = "Error"
                  /\ NoWrite
                  /\ UNCHANGED <<meals, seq, created, view, editing_meal_id>>
             ELSE LET calories == FloatOf(calories_str)
                      r == create_meal(date, f.meal_type, food_name, calories, serving_size, notes)
                  IN  /\ meals' = r.meals
                      /\ seq' = r.seq
                      /\ created' = created \cup {m.id : m \in r.meals \ meals}
                      /\ ret' = r.ok
                      /\ call' = Outcome(Call("create_meal", "create_meal_submit", 0, date,
                                              Payload(f.meal_type, food_name, calories,
                                                      serving_size, notes),
                                              <<>>), r)
                      /\ IF r.ok
                         THEN /\ dialog' = "Success"
                              /\ view' = "dashboard"
                              /\ editing_meal_id' = 0
                         ELSE /\ dialog' = "Error"
                              /\ UNCHANGED <<view, editing_meal_id>>
    /\ UNCHANGED <<users, connection, clock, loopVars, selected_date, calcVars>>

(* update_meal_submit: the Update Meal button of the form built for editing; *)
(* the Date field is not read                                                *)
UpdateMealSubmit ==
    /\ Alive
    /\ view = "add_meal"
    /\ editing_meal_id # 0
    /\ \E entry_date \in FormDates, f \in FormFills :
         LET food_name == strip(f.food_name)
             calories_str == strip(f.calories)
             serving_size == strip(f.serving_size)
             notes == strip(f.notes)
         IN  IF Rejected(food_name, calories_str)
             THEN /\ dialog' = "Error"
                  /\ NoWrite
                  /\ UNCHANGED <<meals, view, editing_meal_id>>
             ELSE LET calories == FloatOf(calories_str)
                      r == update_meal(editing_meal_id, f.meal_type, food_name, calories,
                                       serving_size, notes)
                  IN  /\ meals' = r.meals
                      /\ ret' = r.ok
                      /\ call' = Outcome(Call("update_meal", "update_meal_submit",
                                              editing_meal_id, <<>>,
                                              Payload(f.meal_type, food_name, calories,
                                                      serving_size, notes),
                                              entry_date), r)
                      /\ IF r.ok
                         THEN /\ dialog' = "Success"
                              /\ view' = "dashboard"
                              /\ editing_meal_id' = 0
                         ELSE /\ dialog' = "Error"
                              /\ UNCHANGED <<view, editing_meal_id>>
    /\ UNCHANGED <<seq, created, users, connection, clock, loopVars, selected_date, calcVars>>

(* edit_meal: the Edit button of a displayed meal *)
EditMeal ==
    /\ Alive
    /\ \E meal_id \in Displayed :
         /\ editing_meal_id' = meal_id
         /\ view' = "add_meal"
    /\ dialog' = "none"
    /\ NoWrite
    /\ UNCHANGED <<dbVars, clock, loopVars, selected_date, calcVars>>

(* cancel_edit: the Cancel button of the form built for editing *)
CancelEdit ==
    /\ Alive
    /\ view = "add_meal"
    /\ editing_meal_id # 0
    /\ editing_meal_id' = 0
    /\ view' = "dashboard"
    /\ dialog' = "none"
    /\ NoWrite
    /\ UNCHANGED <<dbVars, clock, loopVars, selected_date, calcVars>>

(* delete_meal called before the question is asked *)
DeleteMealConfirm_unasked ==
    /\ Alive
    /\ \E meal_id \in Displayed, yes \in BOOLEAN :
         LET r == delete_meal(meal_id)
         IN  /\ meals' = r.meals
             /\ ret' = r.ok
             /\ call' = Outcome(Call("delete_meal", "delete_meal_confirm", meal_id, <<>>,
                                     NoPayload, <<>>), r)
             /\ IF yes /\ r.ok
                THEN /\ dialog' = "Success"
                     /\ view' = "dashboard"
                     /\ editing_meal_id' = 0
                ELSE /\ dialog' = IF yes THEN "Error" ELSE "Confirm Delete"
                     /\ UNCHANGED <<view, editing_meal_id>>
    /\ UNCHANGED <<seq, created, users, connection, clock, loopVars, selected_date, calcVars>>

(* delete_meal_confirm: the Delete button of a displayed meal; when the      *)
(* user declines, the question is the last dialog shown                      *)
DeleteMealConfirm ==
    /\ Alive
    /\ \E meal_id \in Displayed, yes \in BOOLEAN :
         IF yes
         THEN LET r == delete_meal(meal_id)
              IN  /\ meals' = r.meals
                  /\ ret' = r.ok
                  /\ call' = Outcome(Call("delete_meal", "delete_meal_confirm", meal_id, <<>>,
                                          NoPayload, <<>>), r)
                  /\ IF r.ok
                     THEN /\ dialog' = "Success"
                          /\ view' = "dashboard"
                          /\ editing_meal_id' = 0
                     ELSE /\ dialog' = "Error"
                          /\ UNCHANGED <<view, editing_meal_id>>
         ELSE /\ dialog' = "Confirm Delete"
              /\ NoWrite
              /\ UNCHANGED <<meals, view, editing_meal_id>>
    /\ UNCHANGED <<seq, created, users, connection, clock, loopVars, selected_date, calcVars>>

(* on_closing: the window is closed *)
OnClosing ==
    /\ Alive
    /\ connection' = close.connection
    /\ view' = IF close.exc = "" THEN "destroyed" ELSE view
    /\ dialog' = "none"
    /\ NoWrite
    /\ UNCHANGED <<meals, seq, created, users, clock, loopVars, editing_meal_id, selected_date,
                   calcVars>>

NextApp ==
    \/ ShowDashboard
    \/ ShowAddMeal
    \/ ShowAllLogs
    \/ UpdateSelectedDate
    \/ CreateMealSubmit
    \/ UpdateMealSubmit
    \/ EditMeal
    \/ CancelEdit
    \/ DeleteMealConfirm
    \/ OnClosing
    \/ Tick

SpecApp == Init /\ [][NextApp]_vars

-----------------------------------------------------------------------------
(* Calls of the calculator *)

InitCalc ==
    /\ InitStore
    /\ calc_args \in CalcValues \X CalcValues \X CalcValues
    /\ calc_out = Pending
    /\ InitLogsIdle

CallCalculator ==
    /\ calc_out' = calculate_calories_for_serving(calc_args[1], calc_args[2], calc_args[3])
    /\ UNCHANGED <<calc_args, logs, meal_type_arg, total_out, filter_out,
                   dbVars, clock, callVars, loopVars, uiVars, dialog>>

NextCalc == CallCalculator

SpecCalc == InitCalc /\ [][NextCalc]_vars

-----------------------------------------------------------------------------
(* Calls of the functions over logs *)

InitLogs ==
    /\ InitStore
    /\ InitCalcIdle
    /\ logs \in LogLists
    /\ meal_type_arg \in MealTypeArgs
    /\ total_out = Pending
    /\ filter_out = FilterPending

CallTotalDailyCalories ==
    /\ total_out' = total_daily_calories(logs)
    /\ UNCHANGED <<logs, meal_type_arg, filter_out, calc_args, calc_out,
                   dbVars, clock, callVars, loopVars, uiVars, dialog>>

CallFilterLogsByMealType ==
    /\ filter_out' = [exc |-> "", value |-> filter_logs_by_meal_type(logs, meal_type_arg)]
    /\ UNCHANGED <<logs, meal_type_arg, total_out, calc_args, calc_out,
                   dbVars, clock, callVars, loopVars, uiVars, dialog>>

NextLogs == CallTotalDailyCalories \/ CallFilterLogsByMealType

SpecLogs == InitLogs /\ [][NextLogs]_vars

-----------------------------------------------------------------------------
(* Properties *)

(* the step is a call of DatabaseManager.op (a step that only advances the *)
(* clock leaves call, ret and the table as they are)                       *)
IsCall(op) ==
    /\ call'.op = op
    /\ pc' = "idle"
    /\ <<call, ret, meals, seq>>' # <<call, ret, meals, seq>>

Returned(op) == call.op = op /\ pc = "idle"

RECURSIVE TotalCalories(_)
TotalCalories(rows) ==
    IF rows = {} THEN RInt(0)
    ELSE LET m == CHOOSE x \in rows : TRUE
         IN  RAdd(TotalCalories(rows \ {m}), m.calories)

(* C1: get_weekly_data returns exactly 7 pairs, oldest first, whose dates   *)
(* are today and the 6 preceding calendar days without gap or duplicate,    *)
(* whatever the wall clock does while the loop runs ("today" being any day  *)
(* the clock showed between the call and the return).                       *)
C1_WeeklySevenConsecutiveDays ==
    Returned("get_weekly_data") =>
        /\ Len(ret) = 7
        /\ \E today \in call.day..call.day_ret :
             \A k \in 1..7 : ret[k][1] = strftime(today - (7 - k))

C3_Frame ==
    (IsCall("update_meal") /\ ret' = TRUE /\ \E m \in meals : m.id = call'.id) =>
        \E old \in meals, new \in meals' :
            /\ old.id = call'.id
            /\ new.id = old.id
            /\ new.date = old.date
            /\ new.timestamp = old.timestamp
            /\ new.meal_type = call'.p.meal_type
            /\ new.food_name = call'.p.food_name
            /\ new.calories = call'.p.calories
            /\ new.serving_size = call'.p.serving_size
            /\ new.notes = call'.p.notes
            /\ meals' \ {new} = meals \ {old}

C3_Stamp ==
    \A x \in meals' :
        IF \E m \in meals : m.id = x.id
        THEN \A m \in meals : m.id = x.id => x.timestamp = m.timestamp /\ x.date = m.date
        ELSE x.timestamp = clock

(* C3: update_meal on an existing id replaces meal_type, food_name,        *)
(* calories, serving_size and notes of that row, leaves its id, date and   *)
(* timestamp and every other row as they were; a row's timestamp is the    *)
(* clock reading of its creation in every later state, also after an edit  *)
(* submitted from the form with another text in its Date field.            *)
C3_UpdateKeepsDateAndTimestamp == [][C3_Frame /\ C3_Stamp]_vars

C3_Witness ==
    /\ Returned("update_meal")
    /\ call.via = "update_meal_submit"
    /\ ret = TRUE
    /\ Cardinality(meals) = 2
    /\ \E m \in meals :
         /\ m.id = call.id
         /\ m.date # call.entry_date
         /\ m.food_name = call.p.food_name
         /\ m.timestamp < clock

(* C4: delete_meal(id) reports success, removes the row with that id if    *)
(* there is one and leaves every other row as it was; afterwards no result *)
(* of read_all_meals holds that id.                                        *)
C4_DeleteIdempotent ==
    [][IsCall("delete_meal") =>
          /\ ret' = TRUE
          /\ meals' = {m \in meals : m.id # call'.id}
          /\ \A r \in SelectAll(meals') : \A k \in 1..Len(r) : r[k].id # call'.id]_vars

C4_Witness ==
    /\ Returned("delete_meal")
    /\ ret = TRUE
    /\ call.id <= seq
    /\ meals # {}
    /\ \A m \in meals : m.id # call.id

(* C5: a successful create_meal adds exactly one row, carrying the given   *)
(* date, food_name and calories, a fresh id and the creation instant, and  *)
(* changes no other row; when no row had that date before,                 *)
(* read_meals_by_date(date) is exactly that one row.                       *)
C5_CreateAddsOne ==
    [][(IsCall("create_meal") /\ ret' = TRUE) =>
          \E m \in meals' :
             /\ m \notin meals
             /\ meals' = meals \cup {m}
             /\ m.id >= 1
             /\ \A x \in meals : x.id # m.id
             /\ m.timestamp = clock
             /\ m.date = call'.date
             /\ m.food_name = call'.p.food_name
             /\ m.calories = call'.p.calories
             /\ (\A x \in meals : x.date # call'.date) =>
                    SelectByDate(meals', call'.date) = {<<ByDateColumns(m)>>}]_vars

C5_Witness ==
    /\ Returned("create_meal")
    /\ ret = TRUE
    /\ Cardinality(meals) = 2
    /\ Cardinality({m \in meals : m.date = call.date}) = 1

(* C6: get_daily_calories(date) is the sum of calories of the stored rows  *)
(* with that date, and 0.0 when there is none.                             *)
C6_DailyTotal ==
    Returned("get_daily_calories") =>
        ret = TotalCalories({m \in meals : m.date = call.date})

C6_Witness ==
    /\ Returned("get_daily_calories")
    /\ Cardinality(meals) = 2
    /\ \A m \in meals : m.date = call.date
    /\ ret = TotalCalories(meals)
    /\ RLess(RInt(0), ret)

RowsOf(r) == {r[k] : k \in 1..Len(r)}

(* C7: read_meals_by_date returns exactly the rows of that date, each once, *)
(* ascending in timestamp, and a row logged earlier (smaller id) always     *)
(* precedes one logged later, also when both got the same clock reading;    *)
(* the empty sequence when no row has that date.                            *)
C7_EarlierLoggedFirst ==
    Returned("read_meals_by_date") =>
        /\ RowsOf(ret) = {ByDateColumns(m) : m \in {x \in meals : x.date = call.date}}
        /\ Len(ret) = Cardinality({x \in meals : x.date = call.date})
        /\ \A a, b \in 1..Len(ret) :
             a < b => ret[a].timestamp <= ret[b].timestamp /\ ret[a].id < ret[b].id

(* C8: read_all_meals returns every stored row exactly once, descending in *)
(* date and, within one date, descending in timestamp.                     *)
C8_ReadAllOrder ==
    Returned("read_all_meals") =>
        /\ RowsOf(ret) = meals
        /\ Len(ret) = Cardinality(meals)
        /\ \A a, b \in 1..Len(ret) :
             a < b => /\ ~TextLess(ret[a].date, ret[b].date)
                      /\ ret[a].date = ret[b].date => ~(ret[a].timestamp < ret[b].timestamp)

C8_Witness ==
    /\ Returned("read_all_meals")
    /\ Len(ret) = 2
    /\ ret[1].date # ret[2].date

-----------------------------------------------------------------------------
(* Properties of the calculator *)

Called == calc_out # Pending

T_abc == <<97, 98, 99>>                     \* "abc"
T_ZeroPadded == <<32, 48, 46, 48, 32>>      \* " 0.0 "
T_MinusZero == <<45, 48>>                   \* "-0"
T_TwoAndHalf == <<50, 46, 53>>              \* "2.5"
T_Fifty == <<53, 48>>                       \* "50"

(* the sampled values that cannot be interpreted as a number *)
NotANumber(x) == x \in {PyNone, PyStr(T_abc), PyStr(<<>>)}

(* the number a sampled numeric value stands for *)
NumberOf(x) ==
    CASE x.t = "num" -> [n |-> x.n, d |-> x.d]
      [] x.t = "str" /\ x.s \in {T_ZeroPadded, T_MinusZero} -> RInt(0)
      [] x.t = "str" /\ x.s = T_TwoAndHalf -> Rat(5, 2)
      [] x.t = "str" /\ x.s = T_Fifty -> RInt(50)

IsZero(x) == ~NotANumber(x) /\ NumberOf(x) = RInt(0)

(* C2 as claimed: with standard_serving_size zero the call fails with       *)
(* ZeroDivisionError whatever the other two arguments are.                  *)
C2_ZeroAlwaysDivisionError ==
    (Called /\ IsZero(calc_args[2])) => calc_out.exc = "ZeroDivisionError"

(* C2 amended: with standard_serving_size zero the call fails with          *)
(* ZeroDivisionError when the other two arguments are numeric, and with     *)
(* ValueError when one of them is not.                                      *)
C2_ZeroDivisionWhenNumeric ==
    (Called /\ IsZero(calc_args[2])) =>
        IF NotANumber(calc_args[1]) \/ NotANumber(calc_args[3])
        THEN calc_out.exc = "ValueError"
        ELSE calc_out.exc = "ZeroDivisionError"

C2_Witness ==
    /\ Called
    /\ calc_args = <<PyNum(100, 1), PyStr(T_ZeroPadded), PyStr(T_TwoAndHalf)>>
    /\ calc_out.exc = "ZeroDivisionError"

C9_Value ==
    (/\ Called
     /\ \A k \in 1..3 : ~NotANumber(calc_args[k])
     /\ ~IsZero(calc_args[2])) =>
        /\ calc_out.exc = ""
        /\ RMul([n |-> calc_out.n, d |-> calc_out.d], NumberOf(calc_args[2]))
             = RMul(NumberOf(calc_args[1]), NumberOf(calc_args[3]))
        /\ calc_args = <<PyNum(100, 1), PyNum(50, 1), PyNum(75, 1)>> => calc_out = Return(RInt(150))

C9_Pure ==
    calc_out' # calc_out =>
        /\ calc_out = Pending
        /\ UNCHANGED <<calc_args, logs, meal_type_arg, total_out, filter_out,
                       dbVars, clock, callVars, loopVars, uiVars, dialog>>

(* C9: for numeric c, u and non-zero numeric s the call returns (c / s) * u *)
(* (the result times s is c times u; (100, 50, 75) gives 150); a call       *)
(* changes nothing but its result, and a repeated call with the same        *)
(* arguments gives the same result.                                         *)
C9_ReturnsScaledCalories == []C9_Value /\ [][C9_Pure]_vars

C9_Witness ==
    /\ calc_args = <<PyNum(100, 1), PyStr(T_Fifty), PyNum(75, 1)>>
    /\ calc_out = Return(RInt(150))

(* C10: when any one argument cannot be interpreted as a number the call    *)
(* fails with ValueError and returns no value.                              *)
C10_ValueErrorOnNonNumeric ==
    (Called /\ \E k \in 1..3 : NotANumber(calc_args[k])) => calc_out.exc = "ValueError"

C10_Witness ==
    /\ Called
    /\ calc_args = <<PyNum(100, 1), PyNum(50, 1), PyNone>>
    /\ calc_out.exc = "ValueError"

-----------------------------------------------------------------------------
(* Properties of the functions over logs *)

TotalCalled == total_out # Pending

RECURSIVE ExactSum(_)
ExactSum(values) ==
    IF values = <<>> THEN RInt(0) ELSE RAdd(Head(values), ExactSum(Tail(values)))

CaloriesOf(log_list) == [k \in 1..Len(log_list) |-> log_list[k].calories]

(* the lists holding the entries of log_list in another order *)
Reorderings(log_list) ==
    {[k \in 1..Len(log_list) |-> log_list[f[k]]] : f \in Orderings(1..Len(log_list))}

(* no addition of the running total rounds: every partial sum taken from    *)
(* the left is a float                                                      *)
NoRounding(log_list) ==
    \A k \in 1..Len(log_list) :
        float_round(ExactSum(CaloriesOf(SubSeq(log_list, 1, k))))
          = ExactSum(CaloriesOf(SubSeq(log_list, 1, k)))

(* C11 as claimed: total_daily_calories(logs) is the sum of the calories of *)
(* the entries, the same for every order of the entries, and 0 for the      *)
(* empty list.                                                              *)
C11_TotalIsOrderIndependentSum ==
    TotalCalled =>
        /\ total_out = Return(ExactSum(CaloriesOf(logs)))
        /\ \A other \in Reorderings(logs) : total_daily_calories(other) = total_out

(* C11 amended: total_daily_calories(logs) is 0 for the empty list and the  *)
(* sum of the calories whenever no addition of the running total rounds;    *)
(* two orders of the same entries in which no addition rounds give the same *)
(* total.                                                                   *)
C11_TotalIsSumWhenNoAdditionRounds ==
    TotalCalled =>
        /\ logs = <<>> => total_out = Return(RInt(0))
        /\ NoRounding(logs) =>
              /\ total_out = Return(ExactSum(CaloriesOf(logs)))
              /\ \A other \in Reorderings(logs) :
                    NoRounding(other) => total_daily_calories(other) = total_out

C11_Witness ==
    /\ TotalCalled
    /\ CaloriesOf(logs) = <<RInt(100), Rat(501, 2), RInt(0)>>
    /\ total_out = Return(Rat(701, 2))

FilterCalled == filter_out.exc = ""

IsLetter(ch) == (ch >= 65 /\ ch <= 90) \/ (ch >= 97 /\ ch <= 122)

(* the two texts are equal up to the case of their letters *)
EqualIgnoringCase(a, b) ==
    /\ Len(a) = Len(b)
    /\ \A k \in 1..Len(a) :
         \/ a[k] = b[k]
         \/ IsLetter(a[k]) /\ IsLetter(b[k]) /\ Abs(a[k] - b[k]) = 32

(* the positions of log_list whose meal_type is t up to letter case *)
Matching(log_list, t) ==
    {k \in 1..Len(log_list) : EqualIgnoringCase(log_list[k].meal_type, t)}

(* C12: filter_logs_by_meal_type(logs, t) holds exactly the entries of logs *)
(* whose meal_type equals t up to letter case, each as often as in logs and *)
(* in their order in logs; "breakfast", "Breakfast" and "BREAKFAST" select  *)
(* the same entries; the result is the empty list when nothing matches.     *)
C12_FilterIgnoresCaseKeepsOrder ==
    FilterCalled =>
        LET out == filter_out.value
            hits == Matching(logs, meal_type_arg)
        IN  /\ Len(out) = Cardinality(hits)
            /\ \E f \in [1..Len(out) -> hits] :
                  /\ \A a, b \in 1..Len(out) : a < b => f[a] < f[b]
                  /\ \A k \in 1..Len(out) : out[k] = logs[f[k]]
            /\ meal_type_arg \in {T_breakfast, T_Breakfast, T_BREAKFAST} =>
                  \A t \in {T_breakfast, T_Breakfast, T_BREAKFAST} :
                      filter_logs_by_meal_type(logs, t) = out
            /\ hits = {} => out = <<>>

C12_Witness ==
    /\ FilterCalled
    /\ meal_type_arg = T_BREAKFAST
    /\ Len(logs) = 3
    /\ <<logs[1].id, logs[2].id, logs[3].id>> = <<2, 4, 1>>
    /\ filter_out.value = <<logs[1], logs[3]>>

-----------------------------------------------------------------------------
(* Properties of the store over the life of its connection *)

(* C13: table users never holds anything but the one row (1, "User", 2000); *)
(* a successful initialize_database leaves exactly that row and leaves      *)
(* every stored meal and the id counter as they were; once the row is there *)
(* no later initialize, close or meal operation removes, alters or          *)
(* duplicates it.                                                           *)
C13_OneSettingsRow ==
    /\ [](users \subseteq {DefaultUser})
    /\ [][ /\ call'.op = "initialize_database" /\ call'.caught = "" =>
                 users' = {DefaultUser} /\ meals' = meals /\ seq' = seq
           /\ users = {DefaultUser} => users' = {DefaultUser} ]_vars

(* initialize_database has succeeded on a store that already had its        *)
(* settings row and a meal                                                  *)
C13_Witness ==
    /\ call.op = "initialize_database"
    /\ call.caught = ""
    /\ dialog = "none"
    /\ users = {DefaultUser}
    /\ meals # {}

PersistenceOps ==
    {"create_meal", "read_meals_by_date", "read_all_meals", "update_meal", "delete_meal",
     "get_daily_calories", "get_target_calories"}

(* C14: an operation called on a DatabaseManager whose connection was never *)
(* opened ends in a storage error handed to its caller (the sqlite3.Error   *)
(* caught and turned into the failure result), never in another exception   *)
(* reaching the caller.                                                     *)
C14_FailedOpenOpsReportStorageError ==
    call.op \in PersistenceOps /\ connection = "none" =>
        call.exc = "" /\ call.caught \in SqliteErrors

WriteOps == {"create_meal", "update_meal", "delete_meal"}

(* the statement of call c is executed on the open connection and violates *)
(* a NOT NULL constraint of table meals                                     *)
ConstraintViolated(c) ==
    /\ connection = "open"
    /\ \/ /\ c.op = "create_meal"
          /\ None \in {c.date, c.p.meal_type, c.p.food_name} \/ c.p.calories = NaN
       \/ /\ c.op = "update_meal"
          /\ None \in {c.p.meal_type, c.p.food_name} \/ c.p.calories = NaN
          /\ \E m \in meals : m.id = c.id

(* C15: when create_meal, update_meal or delete_meal runs on a closed       *)
(* connection or its statement violates a constraint, the sqlite3.Error is  *)
(* caught: no exception reaches the caller, the call returns False, and the *)
(* stored meals and the id counter are as before the call.                  *)
C15_StorageFailureReturnsFalse ==
    [][ call'.op \in WriteOps /\ (connection = "closed" \/ ConstraintViolated(call')) =>
            /\ call'.exc = ""
            /\ call'.caught \in SqliteErrors
            /\ ret' = FALSE
            /\ meals' = meals
            /\ seq' = seq ]_vars

(* create_meal has failed on a closed connection that holds a meal *)
C15_Witness ==
    /\ connection = "closed"
    /\ call.op = "create_meal"
    /\ call.caught = "ProgrammingError"
    /\ call.exc = ""
    /\ ret = FALSE
    /\ dialog = "Error"
    /\ meals # {}

IdsOf(table) == {m.id : m \in table}

(* C16: the ids of the stored meals are distinct; an id that appears in the *)
(* table is one no INSERT has assigned before, also when the meal that had  *)
(* it is deleted; a successful create_meal adds exactly one such id; and a  *)
(* stored meal stays under its id, with its date and timestamp, until       *)
(* delete_meal is called with that id.                                      *)
C16_IdsNeverReused ==
    /\ [](\A a, b \in meals : a.id = b.id => a = b)
    /\ [](IdsOf(meals) \subseteq created)
    /\ [][ /\ (IdsOf(meals') \ IdsOf(meals)) \cap created = {}
           /\ created \subseteq created'
           /\ call'.op = "create_meal" /\ ret' = TRUE =>
                 Cardinality(IdsOf(meals') \ IdsOf(meals)) = 1
           /\ \A m \in meals :
                 \/ \E k \in meals' : /\ k.id = m.id
                                      /\ k.date = m.date
                                      /\ k.timestamp = m.timestamp
                 \/ call'.op = "delete_meal" /\ call'.id = m.id ]_vars

(* a meal created after the meal with id 1 was deleted: it has id 2 *)
C16_Witness ==
    /\ call.op = "create_meal"
    /\ ret = TRUE
    /\ created = {1, 2}
    /\ IdsOf(meals) = {2}

(* C19: on a connection that was opened, get_target_calories returns 2000   *)
(* when the store is freshly initialized, 2000 when table users has no row, *)
(* and 2000 when the query raises a sqlite3.Error (the connection closed);  *)
(* get_daily_calories returns 0.0 when its query raises a sqlite3.Error; in *)
(* none of these cases an exception reaches the caller.                     *)
C19_FallbackDefaults ==
    /\ call.op = "get_target_calories" /\ connection # "none" =>
          /\ call.exc = ""
          /\ ret = 2000
          /\ call.caught # "" <=> connection = "closed"
    /\ call.op = "get_daily_calories" /\ connection = "closed" =>
          /\ call.exc = ""
          /\ call.caught \in SqliteErrors
          /\ ret = RInt(0)

(* get_target_calories has returned the fallback: table users has no row *)
C19_Witness ==
    /\ call.op = "get_target_calories"
    /\ connection = "open"
    /\ users = {}
    /\ call.exc = ""
    /\ ret = 2000

MealOps ==
    {"create_meal", "read_meals_by_date", "read_all_meals", "update_meal", "delete_meal",
     "get_daily_calories"}

(* C20: a call of create_meal, update_meal, delete_meal, read_meals_by_date, *)
(* read_all_meals or get_daily_calories, whatever its outcome, leaves table  *)
(* users and the connection as they were, and get_target_calories returns    *)
(* after it what it returned before it.                                      *)
C20_MealOpsKeepSettings ==
    [][ call'.op \in MealOps =>
            /\ users' = users
            /\ connection' = connection
            /\ get_target_calories' = get_target_calories ]_vars

(* the target read as 2000 after two meals were created and one deleted *)
C20_Witness ==
    /\ call.op = "get_target_calories"
    /\ call.exc = ""
    /\ ret = 2000
    /\ users = {DefaultUser}
    /\ Cardinality(created) = 2
    /\ Cardinality(meals) = 1

-----------------------------------------------------------------------------
(* Properties of what the form handlers store *)

(* C17: every stored meal has a food_name that is not empty and calories    *)
(* that are a number >= 0; create_meal_submit and update_meal_submit call   *)
(* create_meal and update_meal only with a stripped food name that is not   *)
(* empty and with calories that passed the check calories < 0.              *)
C17_StoredMealsValid ==
    /\ [](\A m \in meals : /\ m.food_name \notin {<<>>, None}
                            /\ m.calories # NaN
                            /\ m.calories.d > 0
                            /\ m.calories.n >= 0)
    /\ [][ call'.op \in {"create_meal", "update_meal"} =>
              /\ call'.p.food_name \notin {<<>>, None}
              /\ call'.p.food_name = strip(call'.p.food_name)
              /\ ~(call'.p.calories.n < 0) ]_vars

(* update_meal_submit has stored the form's " Rice " and "200" *)
C17_Witness ==
    /\ call.op = "update_meal"
    /\ call.via = "update_meal_submit"
    /\ ret = TRUE
    /\ \E m \in meals : /\ m.id = call.id
                         /\ m.food_name = T_Rice
                         /\ m.calories = RInt(200)

(* C18: every stored meal's date is a text of the form YYYY-MM-DD that      *)
(* strptime parses as a day of the calendar, whatever was typed into the    *)
(* Date field before create_meal_submit.                                    *)
C18_StoredDatesValid ==
    \A m \in meals : Len(m.date) = 10 /\ strptime(m.date)

-----------------------------------------------------------------------------
(* Properties of close, the weekly series and the two aggregation paths *)

(* C21: close raises nothing and leaves the connection closed when it was   *)
(* open; called on a closed connection or on a DatabaseManager whose        *)
(* connection was never opened it changes nothing; the stored meals and     *)
(* the settings row are untouched by it.                                    *)
C21_CloseIsIdempotent ==
    /\ [](call.op = "close" => connection # "open")
    /\ [][ call'.op = "close" =>
              /\ call'.exc = ""
              /\ connection' = IF connection = "open" THEN "closed" ELSE connection
              /\ UNCHANGED <<meals, seq, users>> ]_vars

(* close has been called on a connection that was already closed *)
C21_Witness ==
    /\ call.op = "close"
    /\ call.conn = "closed"
    /\ call.exc = ""
    /\ connection = "closed"
    /\ meals # {}

PairsAgree(pairs) ==
    \A k \in 1..Len(pairs) :
        pairs[k][2] = TotalCalories({m \in meals : m.date = pairs[k][1]})

(* C22: every pair (date, total) get_weekly_data has collected or returned  *)
(* has total equal to the sum of the calories of the stored meals whose     *)
(* date is that date: 0.0 for a date without a meal, and nothing from a     *)
(* meal stored under any other date.                                        *)
C22_WeeklyTotalsAreDailyTotals ==
    /\ PairsAgree(weekly_data)
    /\ call.op = "get_weekly_data" /\ pc = "idle" /\ call.exc = "" => PairsAgree(ret)

(* the series returned with a day of 200 calories, days without a meal and  *)
(* a meal stored under a date outside the seven days                        *)
C22_Witness ==
    /\ call.op = "get_weekly_data"
    /\ pc = "idle"
    /\ call.exc = ""
    /\ Len(ret) = 7
    /\ \E k \in 1..7 : ret[k][2] = RInt(200)
    /\ \E k \in 1..7 : ret[k][2] = RInt(0)
    /\ \E m \in meals : \A k \in 1..7 : ret[k][1] # m.date

(* C23: update_meal called on the open connection with an id no stored meal *)
(* has returns True and raises nothing, whatever the field values; with any *)
(* connection it leaves the stored meals, each with every field, and the id *)
(* counter as they were.                                                    *)
C23_UpdateOfMissingIdChangesNothing ==
    [][ call'.op = "update_meal" /\ call'.id \notin IdsOf(meals) =>
            /\ meals' = meals
            /\ seq' = seq
            /\ created' = created
            /\ connection = "open" => call'.exc = "" /\ call'.caught = "" /\ ret' = TRUE ]_vars

(* update_meal has returned True for id 2 while only id 1 is stored *)
C23_Witness ==
    /\ call.op = "update_meal"
    /\ call.conn = "open"
    /\ call.id = 2
    /\ IdsOf(meals) = {1}
    /\ call.exc = ""
    /\ ret = TRUE

(* the rows read_meals_by_date(date) returned, as UserLog objects *)
LogsOf(rows, date) ==
    [k \in 1..Len(rows) |->
        UserLog(rows[k].id, date, rows[k].meal_type, rows[k].food_name, rows[k].calories,
                rows[k].serving_size, rows[k].notes, rows[k].timestamp)]

TotalOfRead(rows, date) ==
    LET t == total_daily_calories(LogsOf(rows, date)) IN [n |-> t.n, d |-> t.d]

(* how many rows of the list read_all_meals returned are dated date, and    *)
(* these rows without the date column                                       *)
EntriesDated(all, date) ==
    LET dated == {k \in 1..Len(all) : all[k].date = date}
    IN  <<Cardinality(dated), {ByDateColumns(all[k]) : k \in dated}>>

(* the length of the list read_meals_by_date returned, and its rows *)
EntriesRead(by_date) == <<Len(by_date), {by_date[k] : k \in 1..Len(by_date)}>>

(* no float addition rounds when the calories of the date are added up,     *)
(* in whatever order                                                        *)
NoRoundingOn(date) ==
    LET rows == {m \in meals : m.date = date}
        exact == TotalCalories(rows)
    IN  \A f \in Orderings(rows) :
            TotalOfRead([k \in 1..Len(f) |-> ByDateColumns(f[k])], date) = exact

(* for every date and every list read_meals_by_date can return for it: the  *)
(* list holds the entries of read_all_meals with that date, and, where      *)
(* counted says so, get_daily_calories equals total_daily_calories of it    *)
PathsAgree(counted(_)) ==
    LET alls == read_all_meals
    IN  \A date \in DateInputs :
            LET reads == read_meals_by_date(date)
                dated == {EntriesDated(all, date) : all \in alls}
                daily == get_daily_calories(date)
                check == counted(date)
            IN  \A by_date \in reads :
                    /\ dated = {EntriesRead(by_date)}
                    /\ check => daily = TotalOfRead(by_date, date)

Always(date) == TRUE

(* C24 as stated: for every date, get_daily_calories(date) equals           *)
(* total_daily_calories of the entries read_meals_by_date(date) returns,    *)
(* and those entries are the entries of read_all_meals with that date.      *)
C24_AggregationPathsAgree == PathsAgree(Always)

(* C24, amended: read_meals_by_date(date) holds exactly the entries of      *)
(* read_all_meals with that date; get_daily_calories(date) equals           *)
(* total_daily_calories of them whenever no float addition rounds in        *)
(* adding up the calories of the date.                                      *)
C24_AggregationPathsAgreeWhenNoAdditionRounds == PathsAgree(NoRoundingOn)

(* get_daily_calories has returned 3 for three meals of 1 calorie, the sum  *)
(* total_daily_calories also gives for every order read_meals_by_date can   *)
(* return them in                                                           *)
C24_Witness ==
    /\ call.op = "get_daily_calories"
    /\ call.date = strftime(FirstDay)
    /\ Cardinality({m \in meals : m.date = call.date}) = 3
    /\ NoRoundingOn(call.date)
    /\ ret = RInt(3)
    /\ \A by_date \in read_meals_by_date(call.date) : TotalOfRead(by_date, call.date) = ret

-----------------------------------------------------------------------------
(* Properties of the handlers' view state *)

(* C25: editing_meal_id is set only while the add/edit form is the          *)
(* displayed view (or the window has been closed on it), so that the Add    *)
(* Meal button never finds it set by an earlier Edit.                       *)
C25_EditingOnlyInEditForm ==
    editing_meal_id # 0 => view \in {"add_meal", "destroyed"}

(* C26: selected_date is at all times a text of the form YYYY-MM-DD naming  *)
(* a day of the calendar.                                                   *)
C26_SelectedDateValid ==
    Len(selected_date) = 10 /\ strptime(selected_date)

(* the form input the handlers are to refuse: a food name that is empty     *)
(* once stripped, or a calories text that is empty, not a number or         *)
(* negative                                                                 *)
ToBeRefused(f) ==
    \/ strip(f.food_name) = <<>>
    \/ strip(f.calories) \in {<<>>, T_Abc, T_Minus5}

(* a submit handler has refused its input: it showed "Error" without         *)
(* calling the store                                                         *)
Refused == dialog' = "Error" /\ call'.op = "none"

Declined == dialog' = "Confirm Delete"

(* C27: create_meal_submit and update_meal_submit refuse exactly the input  *)
(* with an empty food name or with empty, non-numeric or negative calories; *)
(* a refused submit calls neither create_meal nor update_meal, leaves the   *)
(* store and editing_meal_id unchanged and the form displayed; a declined   *)
(* delete calls nothing and leaves the store and the view unchanged.        *)
C27_RefusedActionChangesNothing ==
    /\ [](\A f \in FormFills :
            Rejected(strip(f.food_name), strip(f.calories)) <=> ToBeRefused(f))
    /\ [][ Refused \/ Declined =>
              /\ call'.op = "none"
              /\ UNCHANGED <<meals, seq, created, users, connection, editing_meal_id, view>>
              /\ Refused => view' = "add_meal" ]_vars

(* update_meal_submit has refused its input: the edit form is still shown   *)
(* for the stored meal                                                      *)
C27_Witness ==
    /\ dialog = "Error"
    /\ call.op = "none"
    /\ view = "add_meal"
    /\ editing_meal_id # 0
    /\ \E m \in meals : m.id = editing_meal_id

====
